---- MODULE Spec2Model ----
(***************************************************************************)
(* City Mitra: a browser application (src/index.tsx) in which citizens     *)
(* file complaints and an administrator triages them.  Each browser tab    *)
(* runs one App component with its own React state; all tabs share the     *)
(* two localStorage slots USERS_KEY and DB_KEY.                            *)
(*                                                                         *)
(* Text that the program inspects (trim, toLowerCase, includes, padStart)  *)
(* is a sequence of one-character strings; text that is only compared for  *)
(* equality (usernames, passwords, roles, statuses, ...) is a string.      *)
(***************************************************************************)
EXTENDS Integers, Sequences, FiniteSets, TLC

\* ------------------------------------------------------------------ bounds

\* The browser tabs open on the same storage.
Tabs == {1, 2}

\* Complaint ids are drawn from 0 .. MaxRand-1 (9999 values in the program).
MaxRand == 2

\* A tab files no further complaint once its ledger holds MaxLedger records.
MaxLedger == 2

\* No remark is added to a record that already carries MaxRemarks remarks.
MaxRemarks == 2

\* ------------------------------------------------------------------ values

Null == [null |-> TRUE]

\* JavaScript's null for the image field, which otherwise holds a data URL.
NullImg == "null"

CATEGORIES == <<"Electricity", "Water", "Roads", "Sanitation", "Traffic", "Public Safety", "General">>

Statuses == {"Pending", "In Progress", "Resolved"}

Urgencies == {"Low", "Medium", "High"}

Roles == {"user", "admin"}

\* ----------------------------------------------------------------- strings

Range(s) == {s[i] : i \in 1..Len(s)}

LowerOf == [c \in {"A", "B", "C", "I", "T", "R"} |->
              CASE c = "A" -> "a" [] c = "B" -> "b" [] c = "C" -> "c"
                [] c = "I" -> "i" [] c = "T" -> "t" [] c = "R" -> "r"]

toLowerCase(s) == [i \in 1..Len(s) |-> IF s[i] \in DOMAIN LowerOf THEN LowerOf[s[i]] ELSE s[i]]

includes(s, q) == \E i \in 0..(Len(s) - Len(q)) : SubSeq(s, i + 1, i + Len(q)) = q

IsSpace(c) == c \in {" ", "\t", "\n"}

RECURSIVE trimStart(_)
trimStart(s) == IF s # <<>> /\ IsSpace(Head(s)) THEN trimStart(Tail(s)) ELSE s

RECURSIVE trimEnd(_)
trimEnd(s) == IF s # <<>> /\ IsSpace(s[Len(s)]) THEN trimEnd(SubSeq(s, 1, Len(s) - 1)) ELSE s

trim(s) == trimEnd(trimStart(s))

Digit == <<"0", "1", "2", "3", "4", "5", "6", "7", "8", "9">>

RECURSIVE toString(_)
toString(n) == IF n < 10 THEN <<Digit[n + 1]>> ELSE toString(n \div 10) \o <<Digit[(n % 10) + 1]>>

RECURSIVE padStart(_, _, _)
padStart(s, n, c) == IF Len(s) >= n THEN s ELSE padStart(<<c>> \o s, n, c)

\* ----------------------------------------------------------------- storage

\* A localStorage slot: absent, or a string.  The string is modelled by what
\* JSON.parse makes of it: a syntax error, a value that is no array, or an array.
Missing == [kind |-> "missing", val |-> <<>>]
Malformed == [kind |-> "malformed", val |-> <<>>]
NonArray == [kind |-> "nonarray", val |-> <<>>]

JSONstringify(v) == [kind |-> "array", val |-> v]

JSONparseThrows(data) == data.kind = "malformed"

JSONparse(data) == data.val

VARIABLES usersSlot, dbSlot

\* -------------------------------------------------------------- tab state

VARIABLES
    mounted, currentUser, authMode, view, complaints, loading,
    searchQuery, statusFilter, urgencyFilter, categoryFilter,
    text, selectedCat, img, loginRole, userVal, passVal, nameVal,
    pending

\* The message of the alert() raised by the step just taken, "none" if it raised
\* none: alert() is modal, so it is dismissed before the next event is handled.
VARIABLE alertShown

\* History: the ledger operation the step just taken called, with its
\* arguments; NoCall after any other step.
VARIABLE lastCall

NoCall == [op |-> "none", tab |-> 0, id |-> <<>>, status |-> "", comment |-> <<>>]

Call(op, t, id, s, c) == [op |-> op, tab |-> t, id |-> id, status |-> s, comment |-> c]

storageVars == <<usersSlot, dbSlot>>
authVars == <<currentUser, authMode, view, loginRole, userVal, passVal, nameVal>>
filterVars == <<searchQuery, statusFilter, urgencyFilter, categoryFilter>>
formVars == <<text, selectedCat, img>>
vars == <<usersSlot, dbSlot, mounted, currentUser, authMode, view, complaints, loading,
          searchQuery, statusFilter, urgencyFilter, categoryFilter,
          text, selectedCat, img, loginRole, userVal, passVal, nameVal,
          pending, alertShown, lastCall>>

\* ------------------------------------------------------- persistence layer

\* data ? JSON.parse(data) : [], and [] from the catch clause
loadComplaints(data) ==
    IF data.kind = "missing" THEN <<>>
    ELSE IF JSONparseThrows(data) THEN <<>>
    ELSE JSONparse(data)

getComplaintsFromStorage == loadComplaints(dbSlot)

defaultAdmin == [username |-> "admin", password |-> "admin123", name |-> "Chief Administrator", role |-> "admin"]

HasUsername(users, name) == \E i \in 1..Len(users) : users[i].username = name

\* users = data ? JSON.parse(data) : []
parsedUsers == IF usersSlot.kind = "missing" THEN <<>> ELSE JSONparse(usersSlot)

\* A syntax error, or a parsed value without find(), ends in the catch clause.
getUsersFromStorage ==
    IF usersSlot.kind # "missing" /\ (JSONparseThrows(usersSlot) \/ usersSlot.kind = "nonarray")
      THEN <<>>
    ELSE IF ~HasUsername(parsedUsers, "admin")
      THEN Append(parsedUsers, defaultAdmin)
    ELSE parsedUsers

saveComplaintsToStorageMerging(list) ==
    dbSlot' = JSONstringify(list \o SelectSeq(loadComplaints(dbSlot),
                                               LAMBDA c : \A i \in 1..Len(list) : list[i].id # c.id))

saveComplaintsToStorage(list) == dbSlot' = JSONstringify(list)

saveUsersToStorage(users) == usersSlot' = JSONstringify(users)

\* ------------------------------------------------------------------- mount

\* useState initial values (lines 138-159).
TabInit ==
    /\ mounted = [t \in Tabs |-> FALSE]
    /\ currentUser = [t \in Tabs |-> Null]
    /\ authMode = [t \in Tabs |-> "login"]
    /\ view = [t \in Tabs |-> "auth"]
    /\ complaints = [t \in Tabs |-> <<>>]
    /\ loading = [t \in Tabs |-> FALSE]
    /\ searchQuery = [t \in Tabs |-> <<>>]
    /\ statusFilter = [t \in Tabs |-> "All"]
    /\ urgencyFilter = [t \in Tabs |-> "All"]
    /\ categoryFilter = [t \in Tabs |-> "All"]
    /\ text = [t \in Tabs |-> <<>>]
    /\ selectedCat = [t \in Tabs |-> "General"]
    /\ img = [t \in Tabs |-> NullImg]
    /\ loginRole = [t \in Tabs |-> "user"]
    /\ userVal = [t \in Tabs |-> ""]
    /\ passVal = [t \in Tabs |-> ""]
    /\ nameVal = [t \in Tabs |-> ""]
    /\ pending = [t \in Tabs |-> Null]
    /\ alertShown = "none"
    /\ lastCall = NoCall

\* The tab is opened: the component mounts and its effect loads the ledger.
Mount(t) ==
    /\ ~mounted[t]
    /\ mounted' = [mounted EXCEPT ![t] = TRUE]
    /\ complaints' = [complaints EXCEPT ![t] = getComplaintsFromStorage]
    /\ alertShown' = "none"
    /\ lastCall' = NoCall
    /\ UNCHANGED <<storageVars, authVars, filterVars, formVars, loading, pending>>

\* ---------------------------------------------------------- authentication

AuthScreen(t) == mounted[t] /\ view[t] = "auth"

SetUserVal(t, v) ==
    /\ AuthScreen(t)
    /\ userVal' = [userVal EXCEPT ![t] = v]
    /\ alertShown' = "none"
    /\ lastCall' = NoCall
    /\ UNCHANGED <<storageVars, mounted, currentUser, authMode, view, loginRole, passVal, nameVal,
                   filterVars, formVars, complaints, loading, pending>>

SetPassVal(t, v) ==
    /\ AuthScreen(t)
    /\ passVal' = [passVal EXCEPT ![t] = v]
    /\ alertShown' = "none"
    /\ lastCall' = NoCall
    /\ UNCHANGED <<storageVars, mounted, currentUser, authMode, view, loginRole, userVal, nameVal,
                   filterVars, formVars, complaints, loading, pending>>

\* The name field is rendered in register mode only.
SetNameVal(t, v) ==
    /\ AuthScreen(t)
    /\ authMode[t] = "register"
    /\ nameVal' = [nameVal EXCEPT ![t] = v]
    /\ alertShown' = "none"
    /\ lastCall' = NoCall
    /\ UNCHANGED <<storageVars, mounted, currentUser, authMode, view, loginRole, userVal, passVal,
                   filterVars, formVars, complaints, loading, pending>>

\* The CITIZEN and OFFICIAL buttons.
SelectRole(t, r) ==
    /\ AuthScreen(t)
    /\ loginRole' = [loginRole EXCEPT ![t] = r]
    /\ authMode' = [authMode EXCEPT ![t] = "login"]
    /\ alertShown' = "none"
    /\ lastCall' = NoCall
    /\ UNCHANGED <<storageVars, mounted, currentUser, view, userVal, passVal, nameVal,
                   filterVars, formVars, complaints, loading, pending>>

\* The Register / Login link, rendered for the citizen role only.
ToggleAuthMode(t) ==
    /\ AuthScreen(t)
    /\ loginRole[t] = "user"
    /\ authMode' = [authMode EXCEPT ![t] = IF authMode[t] = "login" THEN "register" ELSE "login"]
    /\ alertShown' = "none"
    /\ lastCall' = NoCall
    /\ UNCHANGED <<storageVars, mounted, currentUser, view, loginRole, userVal, passVal, nameVal,
                   filterVars, formVars, complaints, loading, pending>>

\* name: nameVal || userVal
newUser(t) ==
    [username |-> userVal[t], password |-> passVal[t],
     name |-> IF nameVal[t] # "" THEN nameVal[t] ELSE userVal[t], role |-> "user"]

usernameTakenNever(users, t) == FALSE

\* users.find(u => u.username === userVal)
usernameTaken(users, t) == HasUsername(users, userVal[t])

handleRegister(t) ==
    /\ AuthScreen(t)
    /\ authMode[t] = "register"
    /\ IF usernameTaken(getUsersFromStorage, t)
         THEN /\ alertShown' = "Username already exists!"
              /\ UNCHANGED <<usersSlot, authMode, passVal>>
         ELSE /\ saveUsersToStorage(Append(getUsersFromStorage, newUser(t)))
              /\ alertShown' = "Registration successful! Please login."
              /\ authMode' = [authMode EXCEPT ![t] = "login"]
              /\ passVal' = [passVal EXCEPT ![t] = ""]
    /\ lastCall' = NoCall
    /\ UNCHANGED <<dbSlot, mounted, currentUser, view, loginRole, userVal, nameVal,
                   filterVars, formVars, complaints, loading, pending>>

\* users.find(u => u.username === userVal && u.password === passVal)
Matches(u, t) == u.username = userVal[t] /\ u.password = passVal[t]

foundUser(users, t) ==
    IF \E i \in 1..Len(users) : Matches(users[i], t)
      THEN users[CHOOSE i \in 1..Len(users) :
                   Matches(users[i], t) /\ \A j \in 1..(i - 1) : ~Matches(users[j], t)]
      ELSE Null

RoleAcceptedAlways(found, t) == TRUE

\* foundUser.role !== loginRole is the denial
RoleAccepted(found, t) == found.role = loginRole[t]

handleLogin(t) ==
    /\ AuthScreen(t)
    /\ authMode[t] = "login"
    /\ LET found == foundUser(getUsersFromStorage, t) IN
         IF found # Null
           THEN IF ~RoleAccepted(found, t)
                  THEN /\ alertShown' = "Access Denied"
                       /\ UNCHANGED <<currentUser, view>>
                  ELSE /\ currentUser' = [currentUser EXCEPT ![t] =
                                            [id |-> found.username, role |-> found.role, name |-> found.name]]
                       /\ view' = [view EXCEPT ![t] = "dashboard"]
                       /\ alertShown' = "none"
           ELSE /\ alertShown' = "Invalid credentials!"
                /\ UNCHANGED <<currentUser, view>>
    /\ lastCall' = NoCall
    /\ UNCHANGED <<storageVars, mounted, authMode, loginRole, userVal, passVal, nameVal,
                   filterVars, formVars, complaints, loading, pending>>

handleLogout(t) ==
    /\ mounted[t]
    /\ view[t] = "dashboard"
    /\ currentUser' = [currentUser EXCEPT ![t] = Null]
    /\ view' = [view EXCEPT ![t] = "auth"]
    /\ userVal' = [userVal EXCEPT ![t] = ""]
    /\ passVal' = [passVal EXCEPT ![t] = ""]
    /\ nameVal' = [nameVal EXCEPT ![t] = ""]
    /\ alertShown' = "none"
    /\ lastCall' = NoCall
    /\ UNCHANGED <<storageVars, mounted, authMode, loginRole,
                   filterVars, formVars, complaints, loading, pending>>

\* -------------------------------------------------------------- complaints

UserDashboard(t) == mounted[t] /\ view[t] = "dashboard" /\ currentUser[t] # Null /\ currentUser[t].role = "user"

\* currentUser?.role === 'user' ? citizen view : administrator view
AdminDashboard(t) == mounted[t] /\ view[t] = "dashboard" /\ ~(currentUser[t] # Null /\ currentUser[t].role = "user")

SetText(t, v) ==
    /\ UserDashboard(t)
    /\ text' = [text EXCEPT ![t] = v]
    /\ alertShown' = "none"
    /\ lastCall' = NoCall
    /\ UNCHANGED <<storageVars, mounted, authVars, filterVars, selectedCat, img, complaints, loading, pending>>

SetSelectedCat(t, v) ==
    /\ UserDashboard(t)
    /\ selectedCat' = [selectedCat EXCEPT ![t] = v]
    /\ alertShown' = "none"
    /\ lastCall' = NoCall
    /\ UNCHANGED <<storageVars, mounted, authVars, filterVars, text, img, complaints, loading, pending>>

SetImg(t, v) ==
    /\ UserDashboard(t)
    /\ img' = [img EXCEPT ![t] = v]
    /\ alertShown' = "none"
    /\ lastCall' = NoCall
    /\ UNCHANGED <<storageVars, mounted, authVars, filterVars, text, selectedCat, complaints, loading, pending>>

\* `CIT-${Math.floor(Math.random() * 9999).toString().padStart(4, '0')}`
FormatId(n) == <<"C", "I", "T", "-">> \o padStart(toString(n), 4, "0")

AllIds == {FormatId(n) : n \in 0..(MaxRand - 1)}

\* What the continuation of submitComplaint still reads after the await: the
\* values of the render in which the form was submitted.
Closure(t) ==
    [text |-> text[t], currentUser |-> currentUser[t], selectedCat |-> selectedCat[t],
     img |-> img[t], complaints |-> complaints[t]]

\* submitComplaint up to the await (lines 216-222).  The button is disabled
\* while loading.
submitComplaint(t) ==
    /\ UserDashboard(t)
    /\ ~loading[t]
    /\ alertShown' = "none"
    /\ IF trim(text[t]) = <<>> \/ currentUser[t] = Null
         THEN UNCHANGED <<loading, pending>>
         ELSE /\ loading' = [loading EXCEPT ![t] = TRUE]
              /\ pending' = [pending EXCEPT ![t] = Closure(t)]
    /\ lastCall' = NoCall
    /\ UNCHANGED <<storageVars, mounted, authVars, filterVars, formVars, complaints>>

\* The outcome of ai.models.generateContent: the promise rejects, or it
\* resolves to a response whose text is absent/empty, is no JSON, is the JSON
\* null, or is a JSON object that may carry "translated" and "urgency".
Response(kind, hasT, tr, hasU, ur) ==
    [kind |-> kind, hasTranslated |-> hasT, translated |-> tr, hasUrgency |-> hasU, urgency |-> ur]

Rejected == Response("reject", FALSE, <<>>, FALSE, "")
NoText == Response("empty", FALSE, <<>>, FALSE, "")
NotJson == Response("invalid", FALSE, <<>>, FALSE, "")
JsonNull == Response("null", FALSE, <<>>, FALSE, "")
JsonObject(hasT, tr, hasU, ur) == Response("object", hasT, tr, hasU, ur)

ThrowsOnRejectOnly(response) == response.kind = "reject"

\* The await throws, JSON.parse throws, or result.translated is read off null.
Throws(response) == response.kind \in {"reject", "invalid", "null"}

\* result.translated || text
englishTextOf(response, txt) ==
    IF response.kind = "object" /\ response.hasTranslated /\ response.translated # <<>>
      THEN response.translated ELSE txt

\* result.urgency || 'Medium'
urgencyOf(response) ==
    IF response.kind = "object" /\ response.hasUrgency /\ response.urgency # ""
      THEN response.urgency ELSE "Medium"

newComplaint(cl, response, rand, now) ==
    [id |-> FormatId(rand),
     userId |-> cl.currentUser.id,
     userName |-> cl.currentUser.name,
     originalText |-> cl.text,
     englishText |-> englishTextOf(response, cl.text),
     category |-> cl.selectedCat,
     urgency |-> urgencyOf(response),
     status |-> "Pending",
     image |-> cl.img,
     adminComments |-> <<>>,
     timestamp |-> now]

\* const updated = [newComplaint, ...complaints]
prepended(cl, response, rand, now) == <<newComplaint(cl, response, rand, now)>> \o cl.complaints

loadingAfterTryOnly(response) == Throws(response)

\* finally { setLoading(false) }
loadingAfter(response) == FALSE

\* submitComplaint from the await on (lines 222-259).
submitComplaintResume(t, response, rand, now) ==
    /\ mounted[t]
    /\ pending[t] # Null
    /\ IF Throws(response)
         THEN /\ alertShown' = "AI Processing Error."
              /\ UNCHANGED <<complaints, dbSlot, text, img>>
         ELSE /\ complaints' = [complaints EXCEPT ![t] = prepended(pending[t], response, rand, now)]
              /\ saveComplaintsToStorage(prepended(pending[t], response, rand, now))
              /\ text' = [text EXCEPT ![t] = <<>>]
              /\ img' = [img EXCEPT ![t] = NullImg]
              /\ alertShown' = "none"
    /\ loading' = [loading EXCEPT ![t] = loadingAfter(response)]
    /\ pending' = [pending EXCEPT ![t] = Null]
    /\ lastCall' = Call("submitComplaintResume", t, <<>>, "", <<>>)
    /\ UNCHANGED <<usersSlot, mounted, authVars, filterVars, selectedCat>>

withStatusDroppingOthers(list, id, s) ==
    SelectSeq([i \in 1..Len(list) |-> [list[i] EXCEPT !.status = s]], LAMBDA c : c.id = id)

withStatusOfAll(list, id, s) == [i \in 1..Len(list) |-> [list[i] EXCEPT !.status = s]]

\* complaints.map(c => c.id === id ? { ...c, status: s } : c)
withStatus(list, id, s) ==
    [i \in 1..Len(list) |-> IF list[i].id = id THEN [list[i] EXCEPT !.status = s] ELSE list[i]]

updateStatus(t, id, s) ==
    /\ AdminDashboard(t)
    /\ complaints' = [complaints EXCEPT ![t] = withStatus(complaints[t], id, s)]
    /\ saveComplaintsToStorage(withStatus(complaints[t], id, s))
    /\ alertShown' = "none"
    /\ lastCall' = Call("updateStatus", t, id, s, <<>>)
    /\ UNCHANGED <<usersSlot, mounted, authVars, filterVars, formVars, loading, pending>>

\* complaints.map(c => c.id === id ? { ...c, adminComments: [...c.adminComments, {...}] } : c)
withComment(list, id, comment, now) ==
    [i \in 1..Len(list) |->
        IF list[i].id = id
          THEN [list[i] EXCEPT !.adminComments = Append(@, [text |-> comment, date |-> now])]
          ELSE list[i]]

addComment(t, id, comment, now) ==
    /\ AdminDashboard(t)
    /\ alertShown' = "none"
    /\ IF trim(comment) = <<>>
         THEN UNCHANGED <<complaints, dbSlot>>
         ELSE /\ complaints' = [complaints EXCEPT ![t] = withComment(complaints[t], id, comment, now)]
              /\ saveComplaintsToStorage(withComment(complaints[t], id, comment, now))
    /\ lastCall' = Call("addComment", t, id, "", comment)
    /\ UNCHANGED <<usersSlot, mounted, authVars, filterVars, formVars, loading, pending>>

\* ----------------------------------------------------------------- filters

matchesSearchCaseSensitive(c, query) == includes(c.id, query) \/ includes(c.englishText, query)

matchesSearch(c, query) ==
    \/ includes(toLowerCase(c.id), toLowerCase(query))
    \/ includes(toLowerCase(c.englishText), toLowerCase(query))

matchesAll(c, query, sf, uf, cf) ==
    /\ matchesSearch(c, query)
    /\ (sf = "All" \/ c.status = sf)
    /\ (uf = "All" \/ c.urgency = uf)
    /\ (cf = "All" \/ c.category = cf)

filterComplaints(list, query, sf, uf, cf) ==
    SelectSeq(list, LAMBDA c : matchesAll(c, query, sf, uf, cf))

filteredComplaints(t) ==
    filterComplaints(complaints[t], searchQuery[t], statusFilter[t], urgencyFilter[t], categoryFilter[t])

SetSearchQuery(t, v) ==
    /\ AdminDashboard(t)
    /\ searchQuery' = [searchQuery EXCEPT ![t] = v]
    /\ alertShown' = "none"
    /\ lastCall' = NoCall
    /\ UNCHANGED <<storageVars, mounted, authVars, statusFilter, urgencyFilter, categoryFilter,
                   formVars, complaints, loading, pending>>

SetStatusFilter(t, v) ==
    /\ AdminDashboard(t)
    /\ statusFilter' = [statusFilter EXCEPT ![t] = v]
    /\ alertShown' = "none"
    /\ lastCall' = NoCall
    /\ UNCHANGED <<storageVars, mounted, authVars, searchQuery, urgencyFilter, categoryFilter,
                   formVars, complaints, loading, pending>>

\* The ids of the cards the administrator's dashboard renders.
RenderedIds(t) == {filteredComplaints(t)[i].id : i \in 1..Len(filteredComplaints(t))}

\* ------------------------------------------------- directory scenarios

InitUsers ==
    /\ usersSlot \in {Missing, Malformed, NonArray, JSONstringify(<<>>)}
    /\ dbSlot = Missing
    /\ TabInit

\* What a user can do on the authentication screen and to leave the dashboard,
\* typing usernames from U, passwords from P and names from N.
AuthStep(t, U, P, N) ==
    \/ Mount(t)
    \/ \E v \in U : SetUserVal(t, v)
    \/ \E v \in P : SetPassVal(t, v)
    \/ \E v \in N : SetNameVal(t, v)
    \/ \E r \in Roles : SelectRole(t, r)
    \/ ToggleAuthMode(t)
    \/ handleRegister(t)
    \/ handleLogin(t)
    \/ handleLogout(t)

\* Two tabs on one storage, in both of which citizens register and log in.
NextUsers ==
    \E t \in Tabs :
        \/ Mount(t)
        \/ \E v \in {"admin", "bob"} : SetUserVal(t, v)
        \/ SetPassVal(t, "pw")
        \/ ToggleAuthMode(t)
        \/ handleRegister(t)
        \/ handleLogin(t)
        \/ handleLogout(t)

SpecUsers == InitUsers /\ [][NextUsers]_vars

\* One tab, with the administrator's password among the inputs.
NextLogin == AuthStep(1, {"admin", "bob"}, {"admin123", "pw"}, {"Bob"})

SpecLogin == InitUsers /\ [][NextLogin]_vars

\* ---------------------------------------------------- ledger scenarios

\* A citizen who registered earlier.
bob == [username |-> "bob", password |-> "pw", name |-> "Bob", role |-> "user"]

InitLedger ==
    /\ usersSlot = JSONstringify(<<defaultAdmin, bob>>)
    /\ dbSlot \in {Missing, Malformed}
    /\ TabInit

\* Logging in and out as the citizen or the administrator.
SessionStep(t) ==
    \/ Mount(t)
    \/ \E v \in {"admin", "bob"} : SetUserVal(t, v)
    \/ \E v \in {"admin123", "pw"} : SetPassVal(t, v)
    \/ \E r \in Roles : SelectRole(t, r)
    \/ handleLogin(t)
    \/ handleLogout(t)

HasId(list, id) == \E i \in 1..Len(list) : list[i].id = id

RoomInLedger(t) == Len(complaints[t]) < MaxLedger

RoomForRemark(t, id) ==
    \A i \in 1..Len(complaints[t]) :
        complaints[t][i].id = id => Len(complaints[t][i].adminComments) < MaxRemarks

Blank == <<" ">>

\* One tab: a citizen files complaints, the administrator triages them, and
\* updateStatus and addComment are called with any id of the id space.
NextLedger ==
    \/ SessionStep(1)
    \/ \E v \in {Blank, <<"A", "b">>} : SetText(1, v)
    \/ RoomInLedger(1) /\ submitComplaint(1)
    \/ \E response \in {Rejected, NotJson, JsonNull, NoText}, rand \in 0..(MaxRand - 1) :
           submitComplaintResume(1, response, rand, 1)
    \/ \E id \in AllIds, s \in Statuses : updateStatus(1, id, s)
    \/ \E id \in AllIds, c \in {Blank, <<"o", "k">>} :
           RoomForRemark(1, id) /\ addComment(1, id, c, 1)

SpecLedger == InitLedger /\ [][NextLedger]_vars

\* One tab in which a citizen fills the form and files complaints, with every
\* kind of outcome of the classification call.
Responses ==
    {Rejected, NotJson, JsonNull, NoText,
     JsonObject(TRUE, <<>>, TRUE, ""),
     JsonObject(TRUE, <<"R", "b">>, TRUE, "High"),
     JsonObject(FALSE, <<>>, TRUE, "Critical")}

NextSubmit ==
    \/ Mount(1)
    \/ SetUserVal(1, "bob")
    \/ SetPassVal(1, "pw")
    \/ handleLogin(1)
    \/ handleLogout(1)
    \/ \E v \in {Blank, <<"A", "b">>} : SetText(1, v)
    \/ SetImg(1, "data:image/png;base64,AA")
    \/ RoomInLedger(1) /\ submitComplaint(1)
    \/ \E response \in Responses, rand \in 0..(MaxRand - 1) :
           submitComplaintResume(1, response, rand, 1)

SpecSubmit == InitLedger /\ [][NextSubmit]_vars

\* The classification call of a pending submission settles: the promise
\* rejects, or resolves with the JSON null or with no text, and the
\* continuation of submitComplaint then runs.
Settles ==
    \E response \in {Rejected, JsonNull, NoText}, rand \in 0..(MaxRand - 1) :
        submitComplaintResume(1, response, rand, 1)

\* One tab in which the citizen and the administrator log in and out, also
\* while a call is pending, and the citizen files complaints.
NextPending ==
    \/ SessionStep(1)
    \/ \E v \in {Blank, <<"A", "b">>} : SetText(1, v)
    \/ RoomInLedger(1) /\ submitComplaint(1)
    \/ Settles

\* No timeout is enforced: that a pending call settles is the assumption
\* under which a submission ends.
SpecPending == InitLedger /\ [][NextPending]_vars /\ WF_vars(Settles)

\* One tab in which the administrator searches, filters and sets statuses on a
\* ledger that citizens filed in earlier sessions; updateStatus is called with
\* any id of the id space, resolving the records it finds.
Queries == {<<>>, <<"a">>, <<"B">>, <<"1">>}

bobSession == [id |-> "bob", role |-> "user", name |-> "Bob"]

\* Complaints as submitComplaint makes them: one left untranslated in the
\* default category, one translated and graded in another category.
FiledComplaints ==
    {newComplaint([text |-> <<"A", "b">>, currentUser |-> bobSession, selectedCat |-> "General",
                   img |-> NullImg, complaints |-> <<>>], NoText, rand, 1) : rand \in 0..(MaxRand - 1)}
    \cup
    {newComplaint([text |-> <<"A", "b">>, currentUser |-> bobSession, selectedCat |-> "Roads",
                   img |-> NullImg, complaints |-> <<>>],
                  JsonObject(TRUE, <<"R", "b">>, TRUE, "High"), rand, 1) : rand \in 0..(MaxRand - 1)}

RECURSIVE LedgersUpTo(_)
LedgersUpTo(n) ==
    IF n = 0 THEN {<<>>}
    ELSE LedgersUpTo(n - 1) \cup
         {<<c>> \o l : c \in FiledComplaints, l \in {k \in LedgersUpTo(n - 1) : Len(k) = n - 1}}

InitFilter ==
    /\ usersSlot = JSONstringify(<<defaultAdmin, bob>>)
    /\ dbSlot \in {JSONstringify(l) : l \in LedgersUpTo(MaxLedger)}
    /\ TabInit

NextFilter ==
    \/ Mount(1)
    \/ SetUserVal(1, "admin")
    \/ SetPassVal(1, "admin123")
    \/ SelectRole(1, "admin")
    \/ handleLogin(1)
    \/ handleLogout(1)
    \/ \E id \in AllIds, s \in Statuses :
           (s = "Resolved" \/ ~HasId(complaints[1], id)) /\ updateStatus(1, id, s)
    \/ \E q \in Queries : SetSearchQuery(1, q)
    \/ \E f \in {"All", "Resolved"} : SetStatusFilter(1, f)

SpecFilter == InitFilter /\ [][NextFilter]_vars

\* Two tabs on one storage: in tab 1 a citizen files complaints, in tab 2 the
\* administrator sets statuses and adds remarks.
NextTabs ==
    \/ Mount(1)
    \/ SetUserVal(1, "bob")
    \/ SetPassVal(1, "pw")
    \/ handleLogin(1)
    \/ SetText(1, <<"A", "b">>)
    \/ RoomInLedger(1) /\ submitComplaint(1)
    \/ \E response \in {Rejected, NoText}, rand \in 0..(MaxRand - 1) :
           submitComplaintResume(1, response, rand, 1)
    \/ Mount(2)
    \/ SetUserVal(2, "admin")
    \/ SetPassVal(2, "admin123")
    \/ SelectRole(2, "admin")
    \/ handleLogin(2)
    \/ \E id \in AllIds : updateStatus(2, id, "Resolved")
    \/ \E id \in AllIds : RoomForRemark(2, id) /\ addComment(2, id, <<"o", "k">>, 1)

SpecTabs == InitLedger /\ [][NextTabs]_vars

\* One tab from a first visit on: a citizen registers, logs in and files
\* complaints, the administrator sets statuses and adds remarks, and either
\* logs out at any time, also while a classification call is pending.
InitRecords ==
    /\ usersSlot = Missing
    /\ dbSlot \in {Missing, Malformed}
    /\ TabInit

RECURSIVE RemarksIn(_)
RemarksIn(list) ==
    IF list = <<>> THEN 0 ELSE Len(Head(list).adminComments) + RemarksIn(Tail(list))

\* The ids of the records the administrator view renders buttons for.
LedgerIds(t) == {complaints[t][i].id : i \in 1..Len(complaints[t])}

\* The inputs of the authentication form are required: the browser submits
\* the form only when those it shows are filled.
Filled(t) ==
    /\ userVal[t] # ""
    /\ passVal[t] # ""
    /\ authMode[t] = "register" => nameVal[t] # ""

NextRecords ==
    \/ Mount(1)
    \/ \E v \in {"admin", "bob"} : SetUserVal(1, v)
    \/ SetPassVal(1, "admin123")
    \/ SetNameVal(1, "Bob")
    \/ \E r \in Roles : SelectRole(1, r)
    \/ ToggleAuthMode(1)
    \/ Filled(1) /\ handleRegister(1)
    \/ Filled(1) /\ handleLogin(1)
    \/ handleLogout(1)
    \/ SetText(1, <<"A", "b">>)
    \/ RoomInLedger(1) /\ submitComplaint(1)
    \/ \E response \in {Rejected, JsonObject(TRUE, <<"R", "b">>, TRUE, "High")},
          rand \in 0..(MaxRand - 1) :
           submitComplaintResume(1, response, rand, 1)
    \/ \E id \in LedgerIds(1) : updateStatus(1, id, "Resolved")
    \/ \E id \in LedgerIds(1) :
           RemarksIn(complaints[1]) < MaxRemarks /\ addComment(1, id, <<"o", "k">>, 2)

SpecRecords == InitRecords /\ [][NextRecords]_vars

\* ------------------------------------------------------------ ledger claims

IsPrefix(p, q) == Len(p) <= Len(q) /\ SubSeq(q, 1, Len(p)) = p

\* The step just taken completed a submission of tab t with a new complaint.
Created(t) ==
    /\ lastCall'.op = "submitComplaintResume"
    /\ lastCall'.tab = t
    /\ alertShown' = "none"

\* C4: every complaint a successful submitComplaint creates is 'Pending',
\* has no remarks, and is the first element of the ledger, followed by the
\* ledger as it was just before, unchanged.
C4_CreatedPendingAndPrepended ==
    [][\A t \in Tabs : Created(t) =>
          /\ complaints'[t] # <<>>
          /\ Head(complaints'[t]).status = "Pending"
          /\ Head(complaints'[t]).adminComments = <<>>
          /\ Tail(complaints'[t]) = complaints[t]]_vars

\* The step just taken called updateStatus in tab t.
StatusCalled(t) == lastCall'.op = "updateStatus" /\ lastCall'.tab = t

\* C5: updateStatus with an id no record has leaves the ledger as it was,
\* record for record, and raises no error.
C5_UnknownIdLeavesLedger ==
    [][\A t \in Tabs : (StatusCalled(t) /\ ~HasId(complaints[t], lastCall'.id)) =>
          /\ complaints'[t] = complaints[t]
          /\ loadComplaints(dbSlot') = complaints[t]
          /\ alertShown' = "none"]_vars

\* C5 witness: updateStatus was just called on a non-empty ledger with an id
\* that none of its records has.
C5_Witness ==
    /\ lastCall.op = "updateStatus"
    /\ complaints[lastCall.tab] # <<>>
    /\ ~HasId(complaints[lastCall.tab], lastCall.id)
    /\ \E i \in 1..Len(complaints[lastCall.tab]) : complaints[lastCall.tab][i].status # lastCall.status

\* C6: updateStatus with an id the ledger has sets the status of exactly one
\* record and leaves every other record, and the number of records, as it was.
C6_ExactlyOneRecordChanges ==
    [][\A t \in Tabs : (StatusCalled(t) /\ HasId(complaints[t], lastCall'.id)) =>
          \E i \in 1..Len(complaints[t]) :
              /\ complaints[t][i].id = lastCall'.id
              /\ complaints'[t] = [complaints[t] EXCEPT ![i].status = lastCall'.status]]_vars

\* The step just taken called addComment in tab t.
CommentCalled(t) == lastCall'.op = "addComment" /\ lastCall'.tab = t

\* The record after is the record before with one remark carrying txt appended.
RemarkAppended(before, after, txt) ==
    /\ Len(after.adminComments) = Len(before.adminComments) + 1
    /\ after.adminComments[Len(after.adminComments)].text = txt
    /\ after = [before EXCEPT !.adminComments = Append(@, after.adminComments[Len(after.adminComments)])]

\* C10: addComment with a blank text or an unknown id leaves the ledger as it
\* was; otherwise one record, which has that id, gets one remark with that
\* text appended and nothing else changes; updateStatus and addComment never
\* remove or reorder remarks.
C10_RemarkAppendedToOneRecord ==
    [][\A t \in Tabs :
          /\ CommentCalled(t) =>
                IF trim(lastCall'.comment) = <<>> \/ ~HasId(complaints[t], lastCall'.id)
                  THEN complaints'[t] = complaints[t]
                  ELSE /\ Len(complaints'[t]) = Len(complaints[t])
                       /\ \E i \in 1..Len(complaints[t]) :
                             /\ complaints[t][i].id = lastCall'.id
                             /\ RemarkAppended(complaints[t][i], complaints'[t][i], lastCall'.comment)
                             /\ \A j \in 1..Len(complaints[t]) : j # i => complaints'[t][j] = complaints[t][j]
          /\ (CommentCalled(t) \/ StatusCalled(t)) =>
                /\ Len(complaints'[t]) = Len(complaints[t])
                /\ \A i \in 1..Len(complaints[t]) :
                      IsPrefix(complaints[t][i].adminComments, complaints'[t][i].adminComments)]_vars

\* --------------------------------------------------------- directory claims

NoDuplicates(users) ==
    \A i, j \in 1..Len(users) : users[i].username = users[j].username => i = j

\* C1: neither the persisted directory nor the directory getUsersFromStorage
\* returns ever holds two records with one username, and a registration with a
\* username of the loaded directory leaves the persisted directory as it was.
C1_UsernamesUnique ==
    /\ [](NoDuplicates(JSONparse(usersSlot)) /\ NoDuplicates(getUsersFromStorage))
    /\ [][\A t \in Tabs :
             (handleRegister(t) /\ HasUsername(getUsersFromStorage, userVal[t]))
                => usersSlot' = usersSlot]_vars

\* C1 witness: with both tabs open and bob registered, a registration was
\* just refused.
C1_Witness ==
    /\ \A t \in Tabs : mounted[t]
    /\ alertShown = "Username already exists!"
    /\ HasUsername(JSONparse(usersSlot), "bob")
    /\ \E t \in Tabs : userVal[t] = "bob" /\ authMode[t] = "register"

AdminAccounts(users) == {i \in 1..Len(users) : users[i].role = "admin"}

\* C2: whatever the user slot held at the start, the directory that
\* getUsersFromStorage returns has exactly one administrator account, and its
\* username is 'admin'.
C2_ExactlyOneAdministrator ==
    /\ Cardinality(AdminAccounts(getUsersFromStorage)) = 1
    /\ \A i \in AdminAccounts(getUsersFromStorage) : getUsersFromStorage[i].username = "admin"

\* The accounts of the directory with the entered username and password.
Credentialed(t) ==
    {i \in 1..Len(getUsersFromStorage) :
        /\ getUsersFromStorage[i].username = userVal[t]
        /\ getUsersFromStorage[i].password = passVal[t]}

\* Those among them whose stored role is the claimed one.
Entitled(t) == {i \in Credentialed(t) : getUsersFromStorage[i].role = loginRole[t]}

SessionOf(u) == [id |-> u.username, role |-> u.role, name |-> u.name]

\* C8: handleLogin opens a session and the dashboard exactly when an account
\* has the entered username and password and the claimed role, and the session
\* is that account's; matching credentials with another stored role are
\* refused with their own message, and a refusal of either kind leaves no
\* session and the authentication screen.
C8_LoginOutcome ==
    [][\A t \in Tabs : handleLogin(t) =>
          /\ (Entitled(t) # {}) <=> (currentUser'[t] # Null /\ view'[t] = "dashboard")
          /\ Entitled(t) # {} =>
                \E i \in Entitled(t) : currentUser'[t] = SessionOf(getUsersFromStorage[i])
          /\ (Entitled(t) = {} /\ Credentialed(t) # {}) => alertShown' = "Access Denied"
          /\ Credentialed(t) = {} => alertShown' = "Invalid credentials!"
          /\ Entitled(t) = {} => (currentUser'[t] = Null /\ view'[t] = "auth")]_vars

\* C8 witness: the administrator's credentials were just refused on the
\* citizen side.
C8_Witness ==
    /\ alertShown = "Access Denied"
    /\ userVal[1] = "admin" /\ passVal[1] = "admin123" /\ loginRole[1] = "user"
    /\ currentUser[1] = Null /\ view[1] = "auth"

\* ------------------------------------------------------- submission claims

\* C3: a submission whose classification call is rejected, or whose reply is
\* no JSON, changes neither the ledger in memory nor the persisted slot, adds
\* no complaint and keeps the text and the image of the form; issuing the
\* submission changes none of them either.
C3_FailedSubmissionLeavesNoTrace ==
    [][\A t \in Tabs :
          /\ \A response \in {Rejected, NotJson} :
                submitComplaintResume(t, response, 0, 1) =>
                    /\ complaints' = complaints
                    /\ dbSlot' = dbSlot
                    /\ text' = text
                    /\ img' = img
                    /\ alertShown' = "AI Processing Error."
          /\ submitComplaint(t) =>
                (complaints' = complaints /\ dbSlot' = dbSlot /\ text' = text /\ img' = img)]_vars

\* C3 witness: a submission with a text and an image just failed, on a ledger
\* that already holds a complaint.
C3_Witness ==
    /\ alertShown = "AI Processing Error."
    /\ lastCall = Call("submitComplaintResume", 1, <<>>, "", <<>>)
    /\ text[1] = <<"A", "b">>
    /\ img[1] # NullImg
    /\ Len(complaints[1]) = 1
    /\ loadComplaints(dbSlot) = complaints[1]

\* C9: every complaint of the ledger has an urgency among Low, Medium, High.
C9_UrgencyInEnumeration ==
    \A t \in Tabs : \A i \in 1..Len(complaints[t]) : complaints[t][i].urgency \in Urgencies

\* ----------------------------------------------------------- filter claims

CasePairs == {<<"A", "a">>, <<"B", "b">>, <<"C", "c">>, <<"I", "i">>, <<"T", "t">>, <<"R", "r">>}

SameLetter(a, b) == a = b \/ <<a, b>> \in CasePairs \/ <<b, a>> \in CasePairs

ContainsIgnoringCase(s, q) ==
    \E i \in 0..(Len(s) - Len(q)) : \A k \in 1..Len(q) : SameLetter(s[i + k], q[k])

Wanted(c, q, sf, uf, cf) ==
    /\ ContainsIgnoringCase(c.id, q) \/ ContainsIgnoringCase(c.englishText, q)
    /\ sf # "All" => c.status = sf
    /\ uf # "All" => c.urgency = uf
    /\ cf # "All" => c.category = cf

\* shown holds exactly the wanted records of list, in the order of list.
IsViewOf(shown, list, q, sf, uf, cf) ==
    LET idx == {i \in 1..Len(list) : Wanted(list[i], q, sf, uf, cf)}
        rank(i) == Cardinality({j \in idx : j <= i})
    IN  /\ Len(shown) = Cardinality(idx)
        /\ \A i \in idx : shown[rank(i)] = list[i]

\* C7: for the ledger and the search text and status filter of every
\* reachable state, and for every urgency and category filter,
\* filteredComplaints is the subsequence of the ledger, in its order, of the
\* records that contain the search text in id or English text regardless of
\* case and meet each filter that is not 'All'; with no constraint it is the
\* whole ledger.
C7_FilteredIsMatchingSubsequence ==
    \A t \in Tabs :
        /\ \A uf \in {"All", "High"}, cf \in {"All", "Roads"} :
              IsViewOf(filterComplaints(complaints[t], searchQuery[t], statusFilter[t], uf, cf),
                       complaints[t], searchQuery[t], statusFilter[t], uf, cf)
        /\ IsViewOf(filteredComplaints(t), complaints[t], searchQuery[t], statusFilter[t],
                    urgencyFilter[t], categoryFilter[t])
        /\ (searchQuery[t] = <<>> /\ statusFilter[t] = "All" /\ urgencyFilter[t] = "All"
              /\ categoryFilter[t] = "All") => filteredComplaints(t) = complaints[t]

\* C7 witness: of two complaints, the search text in another case and the
\* status filter leave the second only.
C7_Witness ==
    /\ Len(complaints[1]) = 2
    /\ searchQuery[1] = <<"a">>
    /\ statusFilter[1] = "Resolved"
    /\ complaints[1][1].englishText = <<"A", "b">>
    /\ filteredComplaints(1) = <<complaints[1][2]>>

\* ------------------------------------------------------ concurrency claims

\* C11: in a tab, when a pending submission completes with a new complaint,
\* the ledger is the new complaint followed by as many records as before, and
\* each of them has the status and the remarks it had just before the reply
\* (so every status change and remark made while the call was pending is
\* kept), in memory and in the persisted slot.
C11_PendingSubmissionKeepsChanges ==
    [][\A t \in Tabs : Created(t) =>
          /\ Len(complaints'[t]) = Len(complaints[t]) + 1
          /\ \A i \in 1..Len(complaints[t]) :
                /\ complaints'[t][i + 1].status = complaints[t][i].status
                /\ complaints'[t][i + 1].adminComments = complaints[t][i].adminComments
          /\ loadComplaints(dbSlot') = complaints'[t]]_vars

\* The step just taken stored a ledger from tab t: a submission completed
\* with a new complaint, a status was set, or a remark with a text was added.
Mutated(t) ==
    /\ lastCall'.tab = t
    /\ \/ lastCall'.op = "submitComplaintResume" /\ alertShown' = "none"
       \/ lastCall'.op = "updateStatus"
       \/ lastCall'.op = "addComment" /\ trim(lastCall'.comment) # <<>>

\* C12: with two tabs on one storage, a mutation in a tab stores that tab's
\* own in-memory ledger over whatever the slot held, leaves the ledger of the
\* other tab as it was and raises no error: the last write wins.
C12_LastWriteWins ==
    [][\A t \in Tabs : Mutated(t) =>
          /\ dbSlot' = JSONstringify(complaints'[t])
          /\ \A u \in Tabs \ {t} : complaints'[u] = complaints[u]
          /\ alertShown' = "none"]_vars

\* C12 witness: tab 1 filed and stored two complaints, which are both in its
\* ledger; tab 2, which loaded its ledger before the second, has just set a
\* status, and the persisted slot now holds one complaint only.
C12_Witness ==
    /\ lastCall.op = "updateStatus"
    /\ lastCall.tab = 2
    /\ alertShown = "none"
    /\ Len(complaints[1]) = 2
    /\ Len(complaints[2]) = 1
    /\ complaints[2][1].status = "Resolved"
    /\ loadComplaints(dbSlot) = complaints[2]

\* ------------------------------------------------------------ record claims

\* What a record is created with, apart from its status and its remarks.
Frozen(c) ==
    [id |-> c.id, userId |-> c.userId, userName |-> c.userName, originalText |-> c.originalText,
     englishText |-> c.englishText, category |-> c.category, urgency |-> c.urgency,
     image |-> c.image, timestamp |-> c.timestamp]

\* C13: no step of a tab removes a record from its ledger or changes the id,
\* owner, original text, English text, category, urgency, image or creation
\* timestamp of a record: the records of before are the last records of
\* after, in the same order, and differ at most in status and remarks.
C13_RecordsKeptAndFrozen ==
    [][\A t \in Tabs :
          /\ Len(complaints'[t]) >= Len(complaints[t])
          /\ \A i \in 1..Len(complaints[t]) :
                Frozen(complaints'[t][i + Len(complaints'[t]) - Len(complaints[t])])
                    = Frozen(complaints[t][i])]_vars

\* C13 witness: a registered citizen filed two complaints; the administrator
\* resolved the older one and has just added a remark to it, and it still
\* has the text, English text and urgency it was created with.
C13_Witness ==
    /\ lastCall.op = "addComment"
    /\ HasUsername(getUsersFromStorage, "bob")
    /\ Len(complaints[1]) = 2
    /\ complaints[1][2].status = "Resolved"
    /\ complaints[1][2].adminComments # <<>>
    /\ complaints[1][1].adminComments = <<>>
    /\ complaints[1][2].originalText = <<"A", "b">>
    /\ complaints[1][2].englishText = <<"R", "b">>
    /\ complaints[1][2].urgency = "High"
    /\ complaints[1][2].timestamp = 1

\* -------------------------------------------------------- temporal claims

\* C14: loading is true exactly while a classification call of the tab is
\* in flight; while it is true no step starts another call or replaces the
\* one in flight; and, when the call settles, loading eventually returns to
\* false, whether the submission succeeded or failed.
C14_LoadingEndsAndOneCallInFlight ==
    /\ [](\A t \in Tabs : loading[t] <=> pending[t] # Null)
    /\ [][\A t \in Tabs : loading[t] => pending'[t] \in {pending[t], Null}]_vars
    /\ \A t \in Tabs : loading[t] ~> ~loading[t]

\* C14 witness: a submission has just failed; loading is false again and the
\* citizen, still on the form with a text, can file again.
C14_Witness ==
    /\ lastCall.op = "submitComplaintResume"
    /\ alertShown = "AI Processing Error."
    /\ ~loading[1]
    /\ pending[1] = Null
    /\ UserDashboard(1)
    /\ trim(text[1]) # <<>>
    /\ RoomInLedger(1)

====
